---------------------------- MODULE Spec2Model ----------------------------
(***************************************************************************)
(* Expect-style session drivers of netmiko for HP ProCurve                 *)
(* (src/netmiko/hp/hp_procurve.py) and Huawei (src/netmiko/huawei/         *)
(* huawei.py), as state machines over a scripted channel.                  *)
(*                                                                         *)
(* One behaviour is one call of one driver operation on one session.       *)
(* Text is a sequence of lexemes; the device is the environment: every     *)
(* read draws its text (or its failure) from a bounded set, every write    *)
(* may be accepted or raise a transport error.  A step of an operation is  *)
(* the code between two reads, including the write that follows the read.  *)
(***************************************************************************)
EXTENDS Integers, Sequences, FiniteSets, TLC

VARIABLES
    op,          \* the driver operation this behaviour runs
    pc,          \* position inside the operation
    result,      \* "running", "returned", or the exception that left the call
    retval,      \* the returned text
    msg,         \* the message carried by the raised exception
    sent,        \* per payload, how many write_channel calls delivered it
    last_write,  \* payload of the latest write_channel call (delivered or not)
    wfail,       \* payload of the write_channel call that raised, or "none"
    nreads,      \* number of read_channel / read_until_pattern calls made
    new_output,  \* text of the latest read (new_output / output in the code)
    output,      \* accumulated text (output / return_msg in the code)
    fragments,   \* history: the texts appended to the accumulated text
    count,       \* loop counter (count in cleanup, i in telnet_login)
    max_loops,   \* telnet_login's max_loops argument
    caught,      \* history: the failure a try block of cleanup swallowed
    fin_count,   \* history: number of assignments to _session_log_fin
    session_log_fin, \* self._session_log_fin
    closed,      \* remote_conn.close() has been called
    mode,        \* the device's mode: Unprivileged, Privileged, ConfigGlobal
    host,        \* self.host
    base_prompt, \* self.base_prompt
    ansi_escape_codes \* self.ansi_escape_codes

vars == << op, pc, result, retval, msg, sent, last_write, wfail, nreads,
           new_output, output, fragments, count, max_loops, caught,
           fin_count, session_log_fin, closed, mode, host,
                    base_prompt, ansi_escape_codes >>

-----------------------------------------------------------------------------
(* Bounds of the model *)

\* longest text (in lexemes) one read of the teardown loop returns
CleanupMaxLen == 2
\* largest max_loops argument telnet_login is called with
MaxLoops == 2
\* longest output (in lexemes) of one step of commit
CommitMaxLen == 2
\* longest device reply (in characters, after an optional HRP_) that
\* set_base_prompt reads
MaxPromptLen == 4
\* longest text (in lexemes) given to strip_ansi_escape_codes
MaxStripLen == 6

-----------------------------------------------------------------------------
(* Text *)

\* all sequences over alphabet A of length at most n
RECURSIVE SeqsUpTo(_, _)
SeqsUpTo(A, n) ==
    IF n = 0 THEN { <<>> }
    ELSE LET S == SeqsUpTo(A, n - 1)
         IN  S \cup { Append(s, a) : s \in { x \in S : Len(x) = n - 1 }, a \in A }

\* Python's  needle in text  for a one-lexeme needle
Contains(text, lexeme) == \E k \in 1..Len(text) : text[k] = lexeme

\* Python's  needle in text  for a needle of several lexemes
IsSubstring(needle, text) ==
    \E k \in 0..(Len(text) - Len(needle)) :
        \A j \in 1..Len(needle) : text[k + j] = needle[j]

-----------------------------------------------------------------------------
(* The channel *)

\* payloads of write_channel, named by the text before the line terminator
Payloads == { "logout", "y", "n", "RETURN",                \* HP teardown
              "enable", "manager", "secret",               \* HP enable
              "username", "password", "N", "TELNET_RETURN",\* Huawei telnet login
              "system-view", "commit", "return",           \* Huawei commit
              "N LF",                                      \* Huawei SSH login
              "terminal width 511", "no page",             \* HP preparation
              "screen-length 0 temporary" }                \* Huawei preparation

\* write_channel(payload) delivered
WriteOk(payload) ==
    /\ sent' = [sent EXCEPT ![payload] = @ + 1]
    /\ last_write' = payload
    /\ wfail' = wfail

\* write_channel(payload) raised a transport error (socket.error)
WriteRaises(payload) ==
    /\ sent' = sent
    /\ last_write' = payload
    /\ wfail' = payload

NoWrite == UNCHANGED << sent, last_write, wfail >>

TotalSent == LET RECURSIVE Sum(_)
                 Sum(S) == IF S = {} THEN 0
                           ELSE LET p == CHOOSE x \in S : TRUE
                                IN  sent[p] + Sum(S \ {p})
             IN  Sum(Payloads)

Operations == { "cleanup", "telnet_login", "enable", "commit", "set_base_prompt",
                "strip_ansi_escape_codes", "special_login_handler",
                "hp_session_preparation", "huawei_session_preparation" }
Hosts == { "sw1", "sw2" }
Modes == { "Unprivileged", "Privileged", "ConfigGlobal" }

\* the state right after the connection object is constructed, at the call
InitCommon ==
    /\ result = "running"
    /\ retval = <<>>
    /\ msg = <<>>
    /\ sent = [p \in Payloads |-> 0]
    /\ last_write = "none"
    /\ wfail = "none"
    /\ nreads = 0
    /\ new_output = <<>>
    /\ output = <<>>
    /\ fragments = <<>>
    /\ count = 0
    /\ caught = "none"
    /\ fin_count = 0
    /\ session_log_fin = FALSE
    /\ closed = FALSE
    /\ ansi_escape_codes = FALSE

-----------------------------------------------------------------------------
(* HPProcurveBase.cleanup *)

LOGOUT_PROMPT == "Do you want to log out"
SAVE_PROMPT == "Do you want to save the current"

\* what one non-blocking read of the teardown loop can return
CleanupTexts == SeqsUpTo({ LOGOUT_PROMPT, SAVE_PROMPT, "x" }, CleanupMaxLen)

\* mutant of CleanupLastCount: the loop runs one more time
CleanupLastCountOneMore == 10 + 1

\* the loop bound of  while count <= 10
CleanupLastCount == 10

InitCleanup ==
    /\ op = "cleanup"
    /\ pc = "cleanup_exit_config"
    /\ max_loops = 0
    /\ mode \in { "Privileged", "ConfigGlobal" }
    /\ host = "sw1"
    /\ base_prompt = <<>>

\* mutant of CleanupExitConfig: no try block, a failure leaves the call
CleanupExitConfigUnguarded ==
    /\ op = "cleanup" /\ pc = "cleanup_exit_config"
    /\ \E outcome \in { "not_in_config", "check_raised", "exited", "exit_raised" } :
          /\ outcome \in { "exited", "exit_raised" } => mode = "ConfigGlobal"
          /\ outcome = "not_in_config" => mode # "ConfigGlobal"
          /\ mode' = IF outcome = "exited" THEN "Privileged" ELSE mode
          /\ IF outcome \in { "check_raised", "exit_raised" }
             THEN pc' = "done" /\ result' = "raised"
             ELSE pc' = "cleanup_logout" /\ UNCHANGED result
    /\ NoWrite
    /\ UNCHANGED << op, retval, msg, nreads, new_output, output, fragments,
                    count, max_loops, caught, fin_count, session_log_fin,
                    closed, host,
                    base_prompt, ansi_escape_codes >>

\* lines 89-94: try: if check_config_mode(pattern=""): exit_config_mode()
\*              except Exception: pass
CleanupExitConfig ==
    /\ op = "cleanup" /\ pc = "cleanup_exit_config"
    /\ \E outcome \in { "not_in_config", "check_raised", "exited", "exit_raised" } :
          /\ outcome \in { "exited", "exit_raised" } => mode = "ConfigGlobal"
          /\ outcome = "not_in_config" => mode # "ConfigGlobal"
          /\ caught' = IF outcome \in { "check_raised", "exit_raised" }
                       THEN outcome ELSE caught
          /\ mode' = IF outcome = "exited" THEN "Privileged" ELSE mode
    /\ pc' = "cleanup_logout"
    /\ NoWrite
    /\ UNCHANGED << op, result, retval, msg, nreads, new_output, output,
                    fragments, count, max_loops, fin_count, session_log_fin,
                    closed, host,
                    base_prompt, ansi_escape_codes >>

\* lines 97-99: write_channel(command + RETURN) outside any try; count = 0
CleanupLogout ==
    /\ op = "cleanup" /\ pc = "cleanup_logout"
    /\ \/ /\ WriteOk("logout")
          /\ pc' = "cleanup_loop"
          /\ count' = 0
          /\ UNCHANGED result
       \/ /\ WriteRaises("logout")
          /\ pc' = "done"
          /\ result' = "socket.error"
          /\ UNCHANGED count
    /\ UNCHANGED << op, retval, msg, nreads, new_output, output, fragments,
                    max_loops, caught, fin_count, session_log_fin, closed,
                    mode, host,
                    base_prompt, ansi_escape_codes >>

\* lines 110-119: the answer the loop picks for one read
CleanupAnswer(text) ==
    IF Contains(text, LOGOUT_PROMPT) THEN "y"
    ELSE IF Contains(text, SAVE_PROMPT) THEN "n"
    ELSE "RETURN"

\* lines 116-119: only the bare newline is written inside a try
CleanupWriteGuarded(payload) == payload = "RETURN"

\* mutant of CleanupReadRaises:  continue  instead of  break
CleanupReadRaisesContinues ==
    /\ op = "cleanup" /\ pc = "cleanup_loop" /\ count <= CleanupLastCount
    /\ nreads' = nreads + 1
    /\ caught' = "read"
    /\ count' = count + 1
    /\ NoWrite
    /\ UNCHANGED << op, pc, result, retval, msg, new_output, output, fragments,
                    max_loops, fin_count, session_log_fin, closed, mode, host,
                    base_prompt, ansi_escape_codes >>

\* lines 104-108: read_channel() raised socket.error: break
CleanupReadRaises ==
    /\ op = "cleanup" /\ pc = "cleanup_loop" /\ count <= CleanupLastCount
    /\ nreads' = nreads + 1
    /\ caught' = "read"
    /\ pc' = "cleanup_fin"
    /\ NoWrite
    /\ UNCHANGED << op, result, retval, msg, new_output, output, fragments,
                    count, max_loops, fin_count, session_log_fin, closed,
                    mode, host,
                    base_prompt, ansi_escape_codes >>

\* lines 100-120: one iteration whose read returned text
\* (the local  output  of lines 99/106 is never read and is left out)
CleanupIteration ==
    /\ op = "cleanup" /\ pc = "cleanup_loop" /\ count <= CleanupLastCount
    /\ \E text \in CleanupTexts :
          /\ nreads' = nreads + 1
          /\ new_output' = text
          /\ LET answer == CleanupAnswer(text) IN
             \/ /\ WriteOk(answer)
                /\ count' = count + 1
                /\ pc' = "cleanup_loop"
                /\ UNCHANGED << result, caught >>
             \/ /\ WriteRaises(answer)
                /\ CleanupWriteGuarded(answer)
                /\ caught' = "write"
                /\ pc' = "cleanup_fin"
                /\ UNCHANGED << result, count >>
             \/ /\ WriteRaises(answer)
                /\ ~CleanupWriteGuarded(answer)
                /\ pc' = "done"
                /\ result' = "socket.error"
                /\ UNCHANGED << caught, count >>
    /\ UNCHANGED << op, retval, msg, output, fragments, max_loops, fin_count,
                    session_log_fin, closed, mode, host,
                    base_prompt, ansi_escape_codes >>

\* line 100: the loop condition fails
CleanupLoopEnd ==
    /\ op = "cleanup" /\ pc = "cleanup_loop" /\ count > CleanupLastCount
    /\ pc' = "cleanup_fin"
    /\ NoWrite
    /\ UNCHANGED << op, result, retval, msg, nreads, new_output, output,
                    fragments, count, max_loops, caught, fin_count,
                    session_log_fin, closed, mode, host,
                    base_prompt, ansi_escape_codes >>

\* lines 122-123: self._session_log_fin = True, then return
CleanupFinalize ==
    /\ op = "cleanup" /\ pc = "cleanup_fin"
    /\ session_log_fin' = TRUE
    /\ fin_count' = fin_count + 1
    /\ result' = "returned"
    /\ pc' = "done"
    /\ NoWrite
    /\ UNCHANGED << op, retval, msg, nreads, new_output, output, fragments,
                    count, max_loops, caught, closed, mode, host,
                    base_prompt, ansi_escape_codes >>

-----------------------------------------------------------------------------
(* Regular expressions of the Huawei driver, over lexemes *)

\* str.lower() of a lexeme, for re.I
Lower(lexeme) ==
    CASE lexeme = "Username" -> "username"
      [] lexeme = "Login" -> "login"
      [] lexeme = "Password" -> "password"
      [] OTHER -> lexeme

Whitespace == { "NL", " " }

\*  \s*$  right after position k: with re.M the  $  also matches before any
\* newline, without it only at the end or before a final newline
EndsLine(text, k, multiline) ==
    \E m \in k..Len(text) :
        /\ \A j \in (k + 1)..m : text[j] \in Whitespace
        /\ \/ m = Len(text)
           \/ /\ text[m + 1] = "NL"
              /\ multiline \/ m + 1 = Len(text)

\* re.search(terminator + r"\s*$", text, flags)
TerminatorSearch(terminator, text, multiline) ==
    \E k \in 1..Len(text) : text[k] = terminator /\ EndsLine(text, k, multiline)

\* line 128, line 129: the Huawei prompt terminators
pri_prompt_terminator == "]"
alt_prompt_terminator == ">"

\* lines 172-174 and 192-194: either terminator, flags=re.M
PromptTerminatorFound(text) ==
    \/ TerminatorSearch(pri_prompt_terminator, text, TRUE)
    \/ TerminatorSearch(alt_prompt_terminator, text, TRUE)

\* line 130: (?:user:|username|login|user name), searched with re.I
username_pattern(text) ==
    \E k \in 1..Len(text) :
        Lower(text[k]) \in { "user:", "username", "login", "user name" }

\* line 131: assword, searched with re.I
pwd_pattern(text) == \E k \in 1..Len(text) : Lower(text[k]) = "assword"

\* line 138: (Change now|Please choose 'YES' or 'NO').+  ( .  is no newline)
password_change_prompt(text) ==
    \E k \in 1..(Len(text) - 1) :
        /\ text[k] \in { "Change now", "Please choose 'YES' or 'NO'" }
        /\ text[k + 1] # "NL"

\* lines 139-141: the three alternatives, searched without flags
combined_pattern(text) ==
    \/ TerminatorSearch(pri_prompt_terminator, text, FALSE)
    \/ TerminatorSearch(alt_prompt_terminator, text, FALSE)
    \/ password_change_prompt(text)

-----------------------------------------------------------------------------
(* HuaweiTelnet.telnet_login *)

\* what the device may have printed when a read of the login returns
LoginTexts ==
    { <<"Username">>, <<"x", "NL", "login">>,
      <<"assword">>,
      <<"x", "]">>, <<"x", ">", "NL">>,
      <<"Change now", "x">>,
      <<"]", "NL", "Change now", "x">>,
      <<"Change now", "x", ">">>,
      <<"Change now", "NL">>, <<"]", "x">>, <<"x">>, <<>> }

\* outcomes of read_until_pattern(pattern): the accumulated text once the
\* pattern matches it, a timeout failure, or end-of-stream on the transport
ReadUntilOutcomes(matching) ==
    { [kind |-> "text", text |-> t] : t \in matching }
        \cup { [kind |-> "timeout", text |-> <<>>],
               [kind |-> "eof", text |-> <<>>] }

InitLogin ==
    /\ op = "telnet_login"
    /\ pc = "login_username"
    /\ max_loops \in 1..MaxLoops
    /\ mode = "Unprivileged"
    /\ host \in Hosts
    /\ base_prompt = <<>>

\* lines 143-145: output = "", return_msg = "", i = 1  (count is i - 1 + 1)
LoginIteration == count + 1

\* the part of a step that appends a read to return_msg
LoginAppend(text) ==
    /\ nreads' = nreads + 1
    /\ new_output' = text
    /\ output' = output \o text
    /\ fragments' = Append(fragments, text)

\* a blocking read of the loop did not return text (lines 147, 181):
\* EOFError goes to the handler, a timeout failure leaves the call
LoginReadFails(o) ==
    /\ o.kind # "text"
    /\ nreads' = nreads + 1
    /\ IF o.kind = "eof"
       THEN pc' = "login_close" /\ UNCHANGED result
       ELSE pc' = "done" /\ result' = "ReadTimeout"
    /\ NoWrite
    /\ UNCHANGED << new_output, output, fragments, count, retval >>

\* write_channel inside the loop: a transport error is no EOFError
LoginWrite(payload, next_pc) ==
    \/ WriteOk(payload) /\ pc' = next_pc /\ UNCHANGED result
    \/ WriteRaises(payload) /\ pc' = "done" /\ result' = "socket.error"

\* lines 148-153: read for the username pattern, send the username
LoginUsername ==
    /\ op = "telnet_login" /\ pc = "login_username" /\ LoginIteration <= max_loops
    /\ \E o \in ReadUntilOutcomes({ t \in LoginTexts : username_pattern(t) }) :
          \/ LoginReadFails(o)
          \/ /\ o.kind = "text"
             /\ LoginAppend(o.text)
             /\ LoginWrite("username", "login_password")
             /\ UNCHANGED << count, retval >>
    /\ UNCHANGED << op, msg, max_loops, caught, fin_count, session_log_fin,
                    closed, mode, host,
                    base_prompt, ansi_escape_codes >>

\* mutant of LoginPassword: the read is not appended to return_msg
LoginPasswordNotAppended ==
    /\ op = "telnet_login" /\ pc = "login_password"
    /\ \E o \in ReadUntilOutcomes({ t \in LoginTexts : pwd_pattern(t) }) :
          \/ LoginReadFails(o)
          \/ /\ o.kind = "text"
             /\ nreads' = nreads + 1
             /\ new_output' = o.text
             /\ fragments' = Append(fragments, o.text)
             /\ LoginWrite("password", "login_combined")
             /\ UNCHANGED << count, retval, output >>
    /\ UNCHANGED << op, msg, max_loops, caught, fin_count, session_log_fin,
                    closed, mode, host,
                    base_prompt, ansi_escape_codes >>

\* lines 155-159: read for the password pattern, send the password
\* (the session is constructed with a password: the assert of line 158 holds)
LoginPassword ==
    /\ op = "telnet_login" /\ pc = "login_password"
    /\ \E o \in ReadUntilOutcomes({ t \in LoginTexts : pwd_pattern(t) }) :
          \/ LoginReadFails(o)
          \/ /\ o.kind = "text"
             /\ LoginAppend(o.text)
             /\ LoginWrite("password", "login_combined")
             /\ UNCHANGED << count, retval >>
    /\ UNCHANGED << op, msg, max_loops, caught, fin_count, session_log_fin,
                    closed, mode, host,
                    base_prompt, ansi_escape_codes >>

\* lines 171-179: return on a terminator, else nudge and count the iteration
LoginCheck(text) ==
    IF PromptTerminatorFound(text)
    THEN /\ retval' = output'
         /\ result' = "returned"
         /\ pc' = "done"
         /\ NoWrite
         /\ UNCHANGED count
    ELSE \/ /\ WriteOk("TELNET_RETURN")
            /\ count' = count + 1
            /\ pc' = "login_username"
            /\ UNCHANGED << result, retval >>
         \/ /\ WriteRaises("TELNET_RETURN")
            /\ pc' = "done"
            /\ result' = "socket.error"
            /\ UNCHANGED << count, retval >>

\* lines 161-179: read for the combined pattern; decline a password change
LoginCombined ==
    /\ op = "telnet_login" /\ pc = "login_combined"
    /\ \E o \in ReadUntilOutcomes({ t \in LoginTexts : combined_pattern(t) }) :
          \/ LoginReadFails(o)
          \/ /\ o.kind = "text"
             /\ LoginAppend(o.text)
             /\ IF password_change_prompt(o.text)
                THEN /\ LoginWrite("N", "login_declined")
                     /\ UNCHANGED << count, retval >>
                ELSE LoginCheck(o.text)
    /\ UNCHANGED << op, msg, max_loops, caught, fin_count, session_log_fin,
                    closed, mode, host,
                    base_prompt, ansi_escape_codes >>

\* lines 168-179: the read after the password change was declined
LoginDeclined ==
    /\ op = "telnet_login" /\ pc = "login_declined"
    /\ \E o \in ReadUntilOutcomes({ t \in LoginTexts : combined_pattern(t) }) :
          \/ LoginReadFails(o)
          \/ /\ o.kind = "text"
             /\ LoginAppend(o.text)
             /\ LoginCheck(o.text)
    /\ UNCHANGED << op, msg, max_loops, caught, fin_count, session_log_fin,
                    closed, mode, host,
                    base_prompt, ansi_escape_codes >>

\* lines 187-195: after the loop, one newline and one non-blocking read
LoginLastTry ==
    /\ op = "telnet_login" /\ pc = "login_username" /\ LoginIteration > max_loops
    /\ \/ /\ WriteRaises("TELNET_RETURN")
          /\ pc' = "done"
          /\ result' = "socket.error"
          /\ UNCHANGED << nreads, new_output, output, fragments, retval >>
       \/ /\ WriteOk("TELNET_RETURN")
          /\ nreads' = nreads + 1
          /\ pc' = "done"
          /\ result' = "EOFError"
          /\ UNCHANGED << new_output, output, fragments, retval >>
       \/ /\ WriteOk("TELNET_RETURN")
          /\ \E text \in LoginTexts :
                /\ LoginAppend(text)
                /\ IF PromptTerminatorFound(text)
                   THEN retval' = output' /\ result' = "returned" /\ pc' = "done"
                   ELSE pc' = "login_close" /\ UNCHANGED << result, retval >>
    /\ UNCHANGED << op, msg, count, max_loops, caught, fin_count,
                    session_log_fin, closed, mode, host,
                    base_prompt, ansi_escape_codes >>

\* mutant of LoginClose: the transport is left open
LoginCloseSkipped ==
    /\ op = "telnet_login" /\ pc = "login_close"
    /\ pc' = "login_raise"
    /\ NoWrite
    /\ UNCHANGED << op, result, retval, msg, nreads, new_output, output,
                    fragments, count, max_loops, caught, fin_count,
                    session_log_fin, closed, mode, host,
                    base_prompt, ansi_escape_codes >>

\* lines 182-183 and 197-198: self.remote_conn.close()
LoginClose ==
    /\ op = "telnet_login" /\ pc = "login_close"
    /\ closed' = TRUE
    /\ pc' = "login_raise"
    /\ NoWrite
    /\ UNCHANGED << op, result, retval, msg, nreads, new_output, output,
                    fragments, count, max_loops, caught, fin_count,
                    session_log_fin, mode, host,
                    base_prompt, ansi_escape_codes >>

\* lines 184-185 and 199-200: raise NetmikoAuthenticationException(msg)
LoginRaise ==
    /\ op = "telnet_login" /\ pc = "login_raise"
    /\ msg' = << "Login failed: ", host,
                    base_prompt, ansi_escape_codes >>
    /\ result' = "NetmikoAuthenticationException"
    /\ pc' = "done"
    /\ NoWrite
    /\ UNCHANGED << op, retval, nreads, new_output, output, fragments, count,
                    max_loops, caught, fin_count, session_log_fin, closed,
                    mode, host,
                    base_prompt, ansi_escape_codes >>

-----------------------------------------------------------------------------
(* Regular expressions of the HP driver: the pattern strings as sequences  *)
(* of regex tokens, so that what  re  does with them is computed           *)

hp_username_pattern == << "(", "username", "|", "login", "|", "user name", ")" >>
hp_pwd_pattern == << "password" >>
prompt_pattern == << "[>#]" >>

\* line 49: rf"(username|login|user name|{pwd_pattern}|{prompt_pattern})"
full_pattern ==
    << "(", "username", "|", "login", "|", "user name", "|" >>
        \o hp_pwd_pattern \o << "|" >> \o prompt_pattern \o << ")" >>

\* line 61: rf"{pwd_pattern}|{prompt_pattern})"
full_pattern_after_username ==
    hp_pwd_pattern \o << "|" >> \o prompt_pattern \o << ")" >>

\* nesting depth of the pattern after its first n tokens
RECURSIVE ParenDepth(_, _)
ParenDepth(pattern, n) ==
    IF n = 0 THEN 0
    ELSE ParenDepth(pattern, n - 1)
            + (IF pattern[n] = "(" THEN 1 ELSE IF pattern[n] = ")" THEN -1 ELSE 0)

\* re.compile accepts the pattern: every parenthesis is balanced
re_compiles(pattern) ==
    /\ \A n \in 1..Len(pattern) : ParenDepth(pattern, n) >= 0
    /\ ParenDepth(pattern, Len(pattern)) = 0

\* the alternatives of a pattern that is one flat alternation
Alternatives(pattern) ==
    { pattern[n] : n \in 1..Len(pattern) } \ { "(", ")", "|" }

\* one alternative against one lexeme of the text
AlternativeMatches(alternative, lexeme, ignorecase) ==
    IF alternative = "[>#]" THEN lexeme \in { ">", "#" }
    ELSE (IF ignorecase THEN Lower(lexeme) ELSE lexeme) = alternative

\* re.search(pattern, text, flags) for a pattern that compiles
re_search(pattern, text, ignorecase) ==
    \E a \in Alternatives(pattern) : \E k \in 1..Len(text) :
        AlternativeMatches(a, text[k], ignorecase)

-----------------------------------------------------------------------------
(* HPProcurveBase.enable *)

\* what the device may have printed when a read of enable returns
EnableTexts ==
    { <<"Username">>, <<"login", "x">>, <<"Password">>,
      <<"x", "#">>, <<"x", ">">>,
      <<"Username", "x", "Password">>, <<"Password", "x", ">">>,
      <<"password">>, <<"x">> }

\* outcomes of read_until_pattern(pattern, re_flags=re.IGNORECASE): a pattern
\* that does not compile raises re.error at the first search
HPReadOutcomes(pattern) ==
    IF re_compiles(pattern)
    THEN { [kind |-> "text", text |-> t] :
              t \in { x \in EnableTexts : re_search(pattern, x, TRUE) } }
            \cup { [kind |-> "timeout", text |-> <<>>] }
    ELSE { [kind |-> "re.error", text |-> <<>>] }

\* check_enable_mode(): the session is in privileged mode
check_enable_mode == mode = "Privileged"

\* lines 77-80
EnableFailedMsg ==
    << "Failed to enter enable mode. Please ensure you pass ",
       "the 'secret' argument to ConnectHandler." >>

InitEnable ==
    /\ op = "enable"
    /\ pc = "enable_check"
    /\ max_loops = 0
    /\ mode \in { "Unprivileged", "Privileged" }
    /\ host = "sw1"
    /\ base_prompt = <<>>

\* write_channel in enable: a transport error leaves the call
EnableWrite(payload, next_pc) ==
    \/ WriteOk(payload) /\ pc' = next_pc /\ UNCHANGED result
    \/ WriteRaises(payload) /\ pc' = "done" /\ result' = "socket.error"

\* mutant of EnableStart: the command is sent without the first check
EnableStartAlwaysSends ==
    /\ op = "enable" /\ pc = "enable_check"
    /\ EnableWrite("enable", "enable_read1")
    /\ UNCHANGED << op, retval, msg, nreads, new_output, output, fragments,
                    count, max_loops, caught, fin_count, session_log_fin,
                    closed, mode, host,
                    base_prompt, ansi_escape_codes >>

\* lines 42-52: return "" when already enabled, else send the command
EnableStart ==
    /\ op = "enable" /\ pc = "enable_check"
    /\ IF check_enable_mode
       THEN /\ retval' = <<>>
            /\ result' = "returned"
            /\ pc' = "done"
            /\ NoWrite
       ELSE /\ EnableWrite("enable", "enable_read1")
            /\ UNCHANGED retval
    /\ UNCHANGED << op, msg, nreads, new_output, output, fragments, count,
                    max_loops, caught, fin_count, session_log_fin, closed,
                    mode, host,
                    base_prompt, ansi_escape_codes >>

\* a read of enable that returned no text leaves the call with the failure
EnableReadFails(o) ==
    /\ o.kind # "text"
    /\ nreads' = nreads + 1
    /\ pc' = "done"
    /\ result' = IF o.kind = "timeout" THEN "ReadTimeout" ELSE o.kind
    /\ NoWrite
    /\ UNCHANGED << new_output, output, fragments, mode >>

\* lines 66-72: on a password prompt append the read and send the secret;
\* otherwise the device has answered the command with its prompt
EnablePassword(text) ==
    IF re_search(hp_pwd_pattern, text, TRUE)
    THEN /\ output' = output \o text
         /\ fragments' = Append(fragments, text)
         /\ EnableWrite("secret", "enable_read3")
         /\ UNCHANGED mode
    ELSE /\ pc' = "enable_finish"
         /\ \E m \in { "Unprivileged", "Privileged" } : mode' = m
         /\ NoWrite
         /\ UNCHANGED << output, fragments, result >>

\* lines 53-64: the first read; on a username prompt send the default name
EnableRead1 ==
    /\ op = "enable" /\ pc = "enable_read1"
    /\ \E o \in HPReadOutcomes(full_pattern) :
          \/ EnableReadFails(o)
          \/ /\ o.kind = "text"
             /\ nreads' = nreads + 1
             /\ new_output' = o.text
             /\ IF re_search(hp_username_pattern, o.text, TRUE)
                THEN /\ output' = output \o o.text
                     /\ fragments' = Append(fragments, o.text)
                     /\ EnableWrite("manager", "enable_read2")
                     /\ UNCHANGED mode
                ELSE EnablePassword(o.text)
    /\ UNCHANGED << op, retval, msg, count, max_loops, caught, fin_count,
                    session_log_fin, closed, host,
                    base_prompt, ansi_escape_codes >>

\* lines 61-72: the read after the username, with the pattern of line 61
EnableRead2 ==
    /\ op = "enable" /\ pc = "enable_read2"
    /\ \E o \in HPReadOutcomes(full_pattern_after_username) :
          IF o.kind = "text"
          THEN /\ nreads' = nreads + 1
               /\ new_output' = o.text
               /\ EnablePassword(o.text)
          ELSE EnableReadFails(o)
    /\ UNCHANGED << op, retval, msg, count, max_loops, caught, fin_count,
                    session_log_fin, closed, host,
                    base_prompt, ansi_escape_codes >>

\* lines 70-72: the read for the prompt after the secret was sent
EnableRead3 ==
    /\ op = "enable" /\ pc = "enable_read3"
    /\ \E o \in HPReadOutcomes(prompt_pattern) :
          \/ EnableReadFails(o)
          \/ /\ o.kind = "text"
             /\ nreads' = nreads + 1
             /\ new_output' = o.text
             /\ \E m \in { "Unprivileged", "Privileged" } : mode' = m
             /\ pc' = "enable_finish"
             /\ NoWrite
             /\ UNCHANGED << output, fragments, result >>
    /\ UNCHANGED << op, retval, msg, count, max_loops, caught, fin_count,
                    session_log_fin, closed, host,
                    base_prompt, ansi_escape_codes >>

\* mutant of EnableFinish: the output is returned without the second check
EnableFinishUnchecked ==
    /\ op = "enable" /\ pc = "enable_finish"
    /\ output' = output \o new_output
    /\ fragments' = Append(fragments, new_output)
    /\ result' = "returned"
    /\ retval' = output'
    /\ pc' = "done"
    /\ NoWrite
    /\ UNCHANGED << op, msg, nreads, new_output, count, max_loops, caught,
                    fin_count, session_log_fin, closed, mode, host,
                    base_prompt, ansi_escape_codes >>

\* lines 74-83: append the last read, clear_buffer(), check again
EnableFinish ==
    /\ op = "enable" /\ pc = "enable_finish"
    /\ output' = output \o new_output
    /\ fragments' = Append(fragments, new_output)
    /\ IF ~check_enable_mode
       THEN /\ result' = "ValueError"
            /\ msg' = EnableFailedMsg
            /\ UNCHANGED retval
       ELSE /\ result' = "returned"
            /\ retval' = output'
            /\ UNCHANGED msg
    /\ pc' = "done"
    /\ NoWrite
    /\ UNCHANGED << op, nreads, new_output, count, max_loops, caught,
                    fin_count, session_log_fin, closed, mode, host,
                    base_prompt, ansi_escape_codes >>

-----------------------------------------------------------------------------
(* HuaweiVrpv8SSH.commit *)

\* line 227: "Failed to generate committed config", as two lexemes
error_marker == << "Failed to generate", " committed config" >>

\* what one step of commit may return
CommitTexts == SeqsUpTo({ "Failed to generate", " committed config" }, CommitMaxLen)

InitCommit ==
    /\ op = "commit"
    /\ pc = "commit_config_mode"
    /\ max_loops = 0
    /\ mode = "Privileged"
    /\ host = "sw1"
    /\ base_prompt = <<>>

\* a step of commit raised (a timeout, a failed mode change): it leaves the call
CommitStepRaises ==
    /\ pc' = "done"
    /\ result' = "raised"
    /\ UNCHANGED << new_output, output, fragments, retval, msg, mode >>

CommitAppend(text) ==
    /\ new_output' = text
    /\ output' = output \o text
    /\ fragments' = Append(fragments, text)

\* line 233, lines 38-46: output = self.config_mode()  ("system-view")
CommitConfigMode ==
    /\ op = "commit" /\ pc = "commit_config_mode"
    /\ WriteOk("system-view")
    /\ nreads' = nreads + 1
    /\ \/ CommitStepRaises
       \/ \E text \in CommitTexts :
             /\ CommitAppend(text)
             /\ mode' = "ConfigGlobal"
             /\ pc' = "commit_send"
             /\ UNCHANGED << result, retval, msg >>
    /\ UNCHANGED << op, count, max_loops, caught, fin_count, session_log_fin,
                    closed, host,
                    base_prompt, ansi_escape_codes >>

\* lines 234-240: output += self._send_command_str(command_string, ...)
CommitSend ==
    /\ op = "commit" /\ pc = "commit_send"
    /\ WriteOk("commit")
    /\ nreads' = nreads + 1
    /\ \/ CommitStepRaises
       \/ \E text \in CommitTexts :
             /\ CommitAppend(text)
             /\ pc' = "commit_exit"
             /\ UNCHANGED << result, retval, msg, mode >>
    /\ UNCHANGED << op, count, max_loops, caught, fin_count, session_log_fin,
                    closed, host,
                    base_prompt, ansi_escape_codes >>

\* mutant of CommitFailed: only the output of the last step is scanned
CommitFailedLastStep(text) == IsSubstring(error_marker, new_output')

\* line 243: error_marker in output
CommitFailed(text) == IsSubstring(error_marker, text)

\* mutant of CommitExitAndScan: the marker is looked for before the exit
CommitScanBeforeExit ==
    /\ op = "commit" /\ pc = "commit_exit"
    /\ IF CommitFailed(output)
       THEN /\ result' = "ValueError"
            /\ msg' = << "Commit failed with following errors:", "NL", "NL" >>
                         \o output
            /\ pc' = "done"
            /\ NoWrite
            /\ UNCHANGED << nreads, new_output, output, fragments, retval, mode >>
       ELSE /\ WriteOk("return")
            /\ nreads' = nreads + 1
            /\ \E text \in CommitTexts :
                  /\ CommitAppend(text)
                  /\ mode' = "Privileged"
                  /\ pc' = "done"
                  /\ result' = "returned"
                  /\ retval' = output'
                  /\ UNCHANGED msg
    /\ UNCHANGED << op, count, max_loops, caught, fin_count, session_log_fin,
                    closed, host,
                    base_prompt, ansi_escape_codes >>

\* lines 241-245, lines 48-50: output += self.exit_config_mode()  ("return"),
\* then the scan for the marker
CommitExitAndScan ==
    /\ op = "commit" /\ pc = "commit_exit"
    /\ WriteOk("return")
    /\ nreads' = nreads + 1
    /\ \/ CommitStepRaises
       \/ \E text \in CommitTexts :
             /\ CommitAppend(text)
             /\ mode' = "Privileged"
             /\ pc' = "done"
             /\ IF CommitFailed(output')
                THEN /\ result' = "ValueError"
                     /\ msg' = << "Commit failed with following errors:", "NL", "NL" >>
                                  \o output'
                     /\ UNCHANGED retval
                ELSE /\ result' = "returned"
                     /\ retval' = output'
                     /\ UNCHANGED msg
    /\ UNCHANGED << op, count, max_loops, caught, fin_count, session_log_fin,
                    closed, host,
                    base_prompt, ansi_escape_codes >>

-----------------------------------------------------------------------------
(* HuaweiBase.set_base_prompt: here a text is a sequence of characters *)

\* str.strip(): leading and trailing whitespace removed
RECURSIVE Strip(_)
Strip(text) ==
    IF text = <<>> THEN <<>>
    ELSE IF Head(text) \in Whitespace THEN Strip(Tail(text))
    ELSE IF text[Len(text)] \in Whitespace
         THEN Strip(SubSeq(text, 1, Len(text) - 1))
    ELSE text

\* text.split(RESPONSE_RETURN)[-1]: what follows the last newline
RECURSIVE LastLine(_)
LastLine(text) ==
    IF Contains(text, "NL") THEN LastLine(Tail(text)) ELSE text

HRP_ == << "H", "R", "P", "_" >>

\* mutant of StripHAPrefix: the pattern lacks the wildcard character
StripHAPrefixOnly(prompt) ==
    IF Len(prompt) >= 4 /\ SubSeq(prompt, 1, 4) = HRP_
    THEN SubSeq(prompt, 5, Len(prompt))
    ELSE prompt

\* line 89: re.sub(r"^HRP_.", "", prompt, flags=re.M) on a one-line prompt:
\* the prefix and the one character after it, at the start of the line
StripHAPrefix(prompt) ==
    IF Len(prompt) >= 5 /\ SubSeq(prompt, 1, 4) = HRP_ /\ prompt[5] # "NL"
    THEN SubSeq(prompt, 6, Len(prompt))
    ELSE prompt

\* line 92: prompt[1:-1]
DropFirstAndLast(prompt) == SubSeq(prompt, 2, Len(prompt) - 1)

\* mutant of ValidTerminator: any visible character ends a prompt
ValidTerminatorAnyVisible(ch) == ch \notin Whitespace

\* lines 58-59, 85: the last character is one of the two terminators
ValidTerminator(ch) == ch \in { ">", "]" }

\* lines 88-94: the base prompt derived from a prompt that passed the check
DerivedBasePrompt(prompt) == Strip(DropFirstAndLast(StripHAPrefix(prompt)))

\* the characters a device reply is made of
PromptChars == { "<", ">", "[", "]", "#", " ", "NL", "h" }

\* what read_channel() can return after the newline was sent
PromptReplies ==
    { prefix \o body : prefix \in { <<>>, HRP_ },
                       body \in SeqsUpTo(PromptChars, MaxPromptLen) }

\* self.base_prompt before the call
OldBasePrompt == << "o", "l", "d" >>

InitSetBasePrompt ==
    /\ op = "set_base_prompt"
    /\ pc = "set_base_prompt"
    /\ max_loops = 0
    /\ mode = "Unprivileged"
    /\ host = "sw1"
    /\ base_prompt = OldBasePrompt

\* lines 78-97, on the text that read_channel() returned
SetBasePromptFrom(reply) ==
    LET prompt == Strip(LastLine(reply)) IN
    /\ new_output' = reply
    /\ IF prompt = <<>>
       THEN /\ result' = "IndexError"
            /\ UNCHANGED << base_prompt, retval, msg >>
       ELSE IF ~ValidTerminator(prompt[Len(prompt)])
       THEN /\ result' = "ValueError"
            /\ msg' = << "Router prompt not found: " >> \o prompt
            /\ UNCHANGED << base_prompt, retval >>
       ELSE /\ base_prompt' = DerivedBasePrompt(prompt)
            /\ retval' = base_prompt'
            /\ result' = "returned"
            /\ UNCHANGED msg

\* lines 73-97: clear_buffer(), write_channel(RETURN), sleep, read_channel(),
\* then the derivation
SetBasePrompt ==
    /\ op = "set_base_prompt" /\ pc = "set_base_prompt"
    /\ pc' = "done"
    /\ \/ /\ WriteRaises("RETURN")
          /\ result' = "socket.error"
          /\ UNCHANGED << nreads, new_output, base_prompt, retval, msg >>
       \/ /\ WriteOk("RETURN")
          /\ nreads' = nreads + 1
          /\ result' = "socket.error"
          /\ UNCHANGED << new_output, base_prompt, retval, msg >>
       \/ /\ WriteOk("RETURN")
          /\ nreads' = nreads + 1
          /\ \E reply \in PromptReplies : SetBasePromptFrom(reply)
    /\ UNCHANGED << op, output, fragments, count, max_loops, caught, fin_count,
                    session_log_fin, closed, mode, host, ansi_escape_codes >>


-----------------------------------------------------------------------------
(* HuaweiBase.strip_ansi_escape_codes: a text is a sequence of lexemes, ESC[ *)
(* being one lexeme                                                        *)

CSI == "ESC["
Digits == { "1" }

\* \d+ at the start of text: the length of the longest run of digits
RECURSIVE DigitRun(_)
DigitRun(text) ==
    IF text # <<>> /\ Head(text) \in Digits THEN 1 + DigitRun(Tail(text)) ELSE 0

\* line 31: chr(27) + r"\[\d+D" matched at the start of text; the length of
\* the match, 0 when there is none
code_cursor_left(text) ==
    IF text # <<>> /\ Head(text) = CSI
    THEN LET d == DigitRun(Tail(text)) IN
         IF d >= 1 /\ Len(text) >= d + 2 /\ text[d + 2] = "D" THEN d + 2 ELSE 0
    ELSE 0

\* line 33: rf" {code_cursor_left}" matched at the start of text
space_cursor_left(text) ==
    IF text # <<>> /\ Head(text) = " " /\ code_cursor_left(Tail(text)) > 0
    THEN 1 + code_cursor_left(Tail(text))
    ELSE 0

\* re.sub(pattern, "", text): one pass from the left over the text as it was
\* given, every match that does not overlap an earlier one removed
RECURSIVE re_sub(_, _)
re_sub(spaced, text) ==
    IF text = <<>> THEN <<>>
    ELSE LET n == IF spaced THEN space_cursor_left(text)
                            ELSE code_cursor_left(text) IN
         IF n > 0 THEN re_sub(spaced, SubSeq(text, n + 1, Len(text)))
                  ELSE << Head(text) >> \o re_sub(spaced, Tail(text))

\* the base class's stripper, on texts whose only escape code is cursor-left
generic_strip_ansi_escape_codes(text) == re_sub(FALSE, text)

\* lines 31-36
strip_ansi_escape_codes(string_buffer) ==
    generic_strip_ansi_escape_codes(re_sub(TRUE, string_buffer))

StripTexts == SeqsUpTo({ CSI, "1", "D", " " }, MaxStripLen)

InitStrip ==
    /\ op = "strip_ansi_escape_codes"
    /\ pc = "strip"
    /\ max_loops = 0
    /\ mode = "Unprivileged"
    /\ host = "sw1"
    /\ base_prompt = <<>>

\* one call of strip_ansi_escape_codes(string_buffer)
StripAnsiEscapeCodes ==
    /\ op = "strip_ansi_escape_codes" /\ pc = "strip"
    /\ pc' = "done"
    /\ \E string_buffer \in StripTexts :
          /\ new_output' = string_buffer
          /\ retval' = strip_ansi_escape_codes(string_buffer)
    /\ result' = "returned"
    /\ UNCHANGED << op, msg, sent, last_write, wfail, nreads, output, fragments,
                    count, max_loops, caught, fin_count, session_log_fin,
                    closed, mode, host, base_prompt, ansi_escape_codes >>


-----------------------------------------------------------------------------
(* HuaweiSSH.special_login_handler *)

\* line 115, first alternative: ((Change now|Please choose)), as a substring
PasswordChangeOffered(text) ==
    \E k \in 1..Len(text) :
        text[k] \in { "Change now", "Please choose",
                      "Please choose 'YES' or 'NO'" }

\* line 115: ((Change now|Please choose))|([\]>]\s*$), searched without flags
ssh_password_change_prompt(text) ==
    \/ PasswordChangeOffered(text)
    \/ TerminatorSearch("]", text, FALSE)
    \/ TerminatorSearch(">", text, FALSE)

\* what the device may have printed when the read of the handler returns
SshLoginTexts ==
    { <<"x", "]">>, <<"x", ">", "NL">>, <<"<", "x", ">">>,
      <<"Change now", "x">>, <<"Please choose">>,
      <<"]", "NL", "Change now", "x">>, <<"Change now", "x", ">">>,
      <<"]", "x">>, <<"x">>, <<>> }

InitSpecialLogin ==
    /\ op = "special_login_handler"
    /\ pc = "special_login"
    /\ max_loops = 0
    /\ mode = "Unprivileged"
    /\ host \in Hosts
    /\ base_prompt = <<>>

\* lines 116-120: the read, the second search of the same pattern, the answer
\* and clear_buffer()
SpecialLoginHandler ==
    /\ op = "special_login_handler" /\ pc = "special_login"
    /\ pc' = "done"
    /\ nreads' = nreads + 1
    /\ \E o \in ReadUntilOutcomes(
                    { t \in SshLoginTexts : ssh_password_change_prompt(t) }) :
          IF o.kind # "text"
          THEN /\ result' = o.kind
               /\ NoWrite
               /\ UNCHANGED new_output
          ELSE /\ new_output' = o.text
               /\ IF ssh_password_change_prompt(o.text)
                  THEN \/ WriteOk("N LF") /\ result' = "returned"
                       \/ WriteRaises("N LF") /\ result' = "socket.error"
                  ELSE NoWrite /\ result' = "returned"
    /\ UNCHANGED << op, retval, msg, output, fragments, count, max_loops,
                    caught, fin_count, session_log_fin, closed, mode, host,
                    base_prompt, ansi_escape_codes >>


-----------------------------------------------------------------------------
(* HPProcurveBase.session_preparation *)

INTERSTITIAL == "any key to continue"

\* what the device may have printed when a read of the preparation returns
HPPrepTexts ==
    { <<"Press", INTERSTITIAL>>, <<INTERSTITIAL, "NL">>,
      <<INTERSTITIAL, "x", ">">>, <<"x", ">">>, <<"x", "#">>,
      <<"x">>, <<>> }

\* line 21: (any key to continue|[>#])
first_read_pattern(text) ==
    Contains(text, INTERSTITIAL) \/ Contains(text, ">") \/ Contains(text, "#")

\* line 24: [>#]
reread_pattern(text) == Contains(text, ">") \/ Contains(text, "#")

\* outcomes of _test_channel_read(pattern): the text once the pattern matches
\* it, or a timeout failure
TestChannelReadOutcomes(matching) ==
    { [kind |-> "text", text |-> t] : t \in matching }
        \cup { [kind |-> "timeout", text |-> <<>>] }

InitHPPrep ==
    /\ op = "hp_session_preparation"
    /\ pc = "hp_prep_read"
    /\ max_loops = 0
    /\ mode = "Unprivileged"
    /\ host \in Hosts
    /\ base_prompt = <<>>

\* mutant of HPPrepRead: the keystroke is sent whatever was read
HPPrepReadAlwaysKeystroke ==
    /\ op = "hp_session_preparation" /\ pc = "hp_prep_read"
    /\ ansi_escape_codes' = TRUE
    /\ nreads' = nreads + 1
    /\ \E o \in TestChannelReadOutcomes(
                    { t \in HPPrepTexts : first_read_pattern(t) }) :
          IF o.kind = "timeout"
          THEN /\ result' = "timeout" /\ pc' = "done"
               /\ NoWrite
               /\ UNCHANGED << output, new_output >>
          ELSE /\ output' = o.text
               /\ new_output' = o.text
               /\ \/ WriteOk("RETURN") /\ pc' = "hp_prep_reread"
                                       /\ UNCHANGED result
                  \/ WriteRaises("RETURN") /\ pc' = "done"
                                           /\ result' = "socket.error"
    /\ UNCHANGED << op, retval, msg, fragments, count, max_loops, caught,
                    fin_count, session_log_fin, closed, mode, host,
                    base_prompt >>

\* lines 18-23: the flag, the first read and, after the interstitial, the
\* keystroke
HPPrepRead ==
    /\ op = "hp_session_preparation" /\ pc = "hp_prep_read"
    /\ ansi_escape_codes' = TRUE
    /\ nreads' = nreads + 1
    /\ \E o \in TestChannelReadOutcomes(
                    { t \in HPPrepTexts : first_read_pattern(t) }) :
          IF o.kind = "timeout"
          THEN /\ result' = "timeout" /\ pc' = "done"
               /\ NoWrite
               /\ UNCHANGED << output, new_output >>
          ELSE /\ output' = o.text
               /\ new_output' = o.text
               /\ IF Contains(o.text, INTERSTITIAL)
                  THEN \/ WriteOk("RETURN") /\ pc' = "hp_prep_reread"
                                           /\ UNCHANGED result
                       \/ WriteRaises("RETURN") /\ pc' = "done"
                                               /\ result' = "socket.error"
                  ELSE /\ NoWrite
                       /\ pc' = "hp_prep_base_prompt"
                       /\ UNCHANGED result
    /\ UNCHANGED << op, retval, msg, fragments, count, max_loops, caught,
                    fin_count, session_log_fin, closed, mode, host,
                    base_prompt >>

\* line 24: the read after the keystroke
HPPrepReread ==
    /\ op = "hp_session_preparation" /\ pc = "hp_prep_reread"
    /\ nreads' = nreads + 1
    /\ \E o \in TestChannelReadOutcomes(
                    { t \in HPPrepTexts : reread_pattern(t) }) :
          IF o.kind = "timeout"
          THEN /\ result' = "timeout" /\ pc' = "done"
               /\ UNCHANGED new_output
          ELSE /\ new_output' = o.text
               /\ pc' = "hp_prep_base_prompt"
               /\ UNCHANGED result
    /\ NoWrite
    /\ UNCHANGED << op, retval, msg, output, fragments, count, max_loops,
                    caught, fin_count, session_log_fin, closed, mode, host,
                    base_prompt, ansi_escape_codes >>

\* line 26: set_base_prompt() of the base class: a newline, a read, and either
\* the prompt without its terminator or the prompt-not-found failure
HPPrepSetBasePrompt ==
    /\ op = "hp_session_preparation" /\ pc = "hp_prep_base_prompt"
    /\ \/ /\ WriteRaises("RETURN")
          /\ result' = "socket.error" /\ pc' = "done"
          /\ UNCHANGED << nreads, base_prompt >>
       \/ /\ WriteOk("RETURN")
          /\ nreads' = nreads + 1
          /\ \/ /\ base_prompt' = << host >>
                /\ pc' = "hp_prep_width"
                /\ UNCHANGED result
             \/ /\ result' = "ValueError" /\ pc' = "done"
                /\ UNCHANGED base_prompt
    /\ UNCHANGED << op, retval, msg, new_output, output, fragments, count,
                    max_loops, caught, fin_count, session_log_fin, closed,
                    mode, host, ansi_escape_codes >>

\* a step of the base class that writes its command and reads until the
\* device answered: it returns, or the write or the read fails
CommandStep(payload, next_pc) ==
    /\ \/ /\ WriteRaises(payload)
          /\ result' = "socket.error" /\ pc' = "done"
          /\ UNCHANGED nreads
       \/ /\ WriteOk(payload)
          /\ nreads' = nreads + 1
          /\ \/ /\ pc' = next_pc
                /\ result' = IF next_pc = "done" THEN "returned" ELSE result
             \/ result' = "timeout" /\ pc' = "done"
    /\ UNCHANGED << op, retval, msg, new_output, output, fragments, count,
                    max_loops, caught, fin_count, session_log_fin, closed,
                    mode, host, base_prompt, ansi_escape_codes >>

\* line 27: set_terminal_width(command="terminal width 511",
\* pattern="terminal"), outside any try
HPPrepSetTerminalWidth ==
    /\ op = "hp_session_preparation" /\ pc = "hp_prep_width"
    /\ CommandStep("terminal width 511", "hp_prep_paging")

\* lines 28-29: disable_paging(command=RETURN + "no page")
HPPrepDisablePaging ==
    /\ op = "hp_session_preparation" /\ pc = "hp_prep_paging"
    /\ CommandStep("no page", "done")


-----------------------------------------------------------------------------
(* HuaweiBase.session_preparation *)

\* the replies that set_base_prompt may read during the preparation
HuaweiPrepReplies ==
    { <<"<", "h", ">">>, <<"[", "h", "]">>, <<"x", "NL", "<", "h", ">">>,
      <<"<", ">">>, <<"h", "#">>, <<"h">>, <<>> }

InitHuaweiPrep ==
    /\ op = "huawei_session_preparation"
    /\ pc = "huawei_prep_read"
    /\ max_loops = 0
    /\ mode = "Unprivileged"
    /\ host \in Hosts
    /\ base_prompt = <<>>

\* lines 16-17: the flag and _test_channel_read()
HuaweiPrepRead ==
    /\ op = "huawei_session_preparation" /\ pc = "huawei_prep_read"
    /\ ansi_escape_codes' = TRUE
    /\ nreads' = nreads + 1
    /\ \/ pc' = "huawei_prep_base_prompt" /\ UNCHANGED result
       \/ pc' = "done" /\ result' = "timeout"
    /\ NoWrite
    /\ UNCHANGED << op, retval, msg, new_output, output, fragments, count,
                    max_loops, caught, fin_count, session_log_fin, closed,
                    mode, host, base_prompt >>

\* line 18: set_base_prompt() (lines 56-97); its return value is dropped
HuaweiPrepSetBasePrompt ==
    /\ op = "huawei_session_preparation" /\ pc = "huawei_prep_base_prompt"
    /\ \/ /\ WriteRaises("RETURN")
          /\ result' = "socket.error" /\ pc' = "done"
          /\ UNCHANGED << nreads, new_output, base_prompt, msg >>
       \/ /\ WriteOk("RETURN")
          /\ nreads' = nreads + 1
          /\ \E reply \in HuaweiPrepReplies :
                LET prompt == Strip(LastLine(reply)) IN
                /\ new_output' = reply
                /\ IF prompt = <<>>
                   THEN /\ result' = "IndexError" /\ pc' = "done"
                        /\ UNCHANGED << base_prompt, msg >>
                   ELSE IF ~ValidTerminator(prompt[Len(prompt)])
                   THEN /\ result' = "ValueError" /\ pc' = "done"
                        /\ msg' = << "Router prompt not found: " >> \o prompt
                        /\ UNCHANGED base_prompt
                   ELSE /\ base_prompt' = DerivedBasePrompt(prompt)
                        /\ pc' = "huawei_prep_paging"
                        /\ UNCHANGED << result, msg >>
    /\ UNCHANGED << op, retval, output, fragments, count, max_loops, caught,
                    fin_count, session_log_fin, closed, mode, host,
                    ansi_escape_codes >>

\* lines 19-22: disable_paging(command="screen-length 0 temporary"), the
\* sleep and clear_buffer()
HuaweiPrepDisablePaging ==
    /\ op = "huawei_session_preparation" /\ pc = "huawei_prep_paging"
    /\ CommandStep("screen-length 0 temporary", "done")


-----------------------------------------------------------------------------
Init ==
    /\ InitCommon
    /\ InitCleanup \/ InitLogin \/ InitEnable \/ InitCommit \/ InitSetBasePrompt \/ InitStrip \/ InitSpecialLogin \/ InitHPPrep \/ InitHuaweiPrep

Next ==
    \/ CleanupExitConfig
    \/ CleanupLogout
    \/ CleanupReadRaises
    \/ CleanupIteration
    \/ CleanupLoopEnd
    \/ CleanupFinalize
    \/ LoginUsername
    \/ LoginPassword
    \/ LoginCombined
    \/ LoginDeclined
    \/ LoginLastTry
    \/ LoginClose
    \/ LoginRaise
    \/ EnableStart
    \/ EnableRead1
    \/ EnableRead2
    \/ EnableRead3
    \/ EnableFinish
    \/ CommitConfigMode
    \/ CommitSend
    \/ CommitExitAndScan
    \/ SetBasePrompt
    \/ StripAnsiEscapeCodes
    \/ SpecialLoginHandler
    \/ HPPrepRead
    \/ HPPrepReread
    \/ HPPrepSetBasePrompt
    \/ HPPrepSetTerminalWidth
    \/ HPPrepDisablePaging
    \/ HuaweiPrepRead
    \/ HuaweiPrepSetBasePrompt
    \/ HuaweiPrepDisablePaging

Spec == Init /\ [][Next]_vars

-----------------------------------------------------------------------------
(* Properties *)

\* the texts appended so far, concatenated in order
RECURSIVE Concatenation(_, _)
Concatenation(texts, n) ==
    IF n = 0 THEN <<>> ELSE Concatenation(texts, n - 1) \o texts[n]

\* C1: in HP teardown a transport error raised by any write (logout, y, n or
\* the bare newline) is swallowed: the call does not end with the error, and
\* when it ends it has returned with the session marked finalized once.
CleanupWriteErrorSwallowed ==
    (op = "cleanup" /\ wfail # "none") =>
        /\ result # "socket.error"
        /\ pc = "done" => (result = "returned" /\ fin_count = 1)

\* C2: in HP teardown, once the read of iteration k (count = k) has raised,
\* no further read and no further write is made (reads = k + 1, delivered
\* writes = logout + k answers), the loop is left, and the call returns with
\* the session marked finalized exactly once.
CleanupReadErrorEndsLoop ==
    (op = "cleanup" /\ caught = "read") =>
        /\ pc \in { "cleanup_fin", "done" }
        /\ nreads = count + 1
        /\ TotalSent = count + 1
        /\ wfail = "none"
        /\ pc = "cleanup_fin" => (result = "running" /\ fin_count = 0)
        /\ pc = "done" =>
              (result = "returned" /\ fin_count = 1 /\ session_log_fin)

\* C2 witness: the third read (count = 2) raised and the call has returned
CleanupThirdReadRaised ==
    /\ op = "cleanup" /\ caught = "read" /\ count = 2
    /\ result = "returned" /\ fin_count = 1

\* C3: in HP teardown every read that contains the save-configuration prompt
\* is answered with n, whatever else the read contains.
CleanupSaveAnsweredNo ==
    (op = "cleanup" /\ nreads >= 1 /\ Contains(new_output, SAVE_PROMPT)) =>
        last_write = "n"

\* no read of the login has shown a prompt terminator
NoTerminatorPresented ==
    \A k \in 1..Len(fragments) : ~PromptTerminatorFound(fragments[k])

\* C4: telnet login against a transport that never presents a prompt
\* terminator and never closes (no end-of-stream, no failed write) ends with
\* the authentication failure.
LoginNoTerminatorFails ==
    ( /\ op = "telnet_login" /\ pc = "done"
      /\ NoTerminatorPresented
      /\ wfail = "none" /\ result # "EOFError" ) =>
        result = "NetmikoAuthenticationException"

\* C5: every telnet login that ends with the authentication failure has
\* closed the transport before raising, and the failure names the host.
LoginFailureClosesTransport ==
    op = "telnet_login" =>
        /\ pc = "login_raise" => closed
        /\ result = "NetmikoAuthenticationException" =>
              (closed /\ msg = << "Login failed: ", host,
                    base_prompt, ansi_escape_codes >>)

\* C5 witness: the retry bound was exhausted, the last probe showed no
\* terminator, and the failure was raised
LoginExhaustedFailed ==
    /\ op = "telnet_login" /\ result = "NetmikoAuthenticationException"
    /\ LoginIteration > max_loops /\ max_loops = MaxLoops /\ host = "sw2"

\* what C6 promises of a first iteration
LoginSucceededInFirstIteration ==
    /\ result = "returned"
    /\ LoginIteration = 1
    /\ sent["username"] = 1 /\ sent["password"] = 1
    /\ retval = fragments[1] \o fragments[2] \o fragments[3]

\* the first iteration of the login loop is over
LoginFirstIterationOver == pc = "done" \/ LoginIteration > 1

\* C6 as stated: when the first three reads are the username prompt, the
\* password prompt and a text with a prompt terminator, then once the first
\* iteration is over login has succeeded in iteration 1 with username and
\* password written once each, in that order, and returns the three reads
\* concatenated.
LoginThreeReadsSucceed ==
    op = "telnet_login" =>
        /\ sent["password"] <= sent["username"]
        /\ ( /\ Len(fragments) >= 3
             /\ PromptTerminatorFound(fragments[3])
             /\ LoginFirstIterationOver ) =>
              LoginSucceededInFirstIteration

\* C6 amended: the same, for a third read that carries no password-change
\* prompt (with one, the driver writes N and reads a fourth time); the
\* success then follows the third read at once.
LoginThreeReadsSucceedUnlessChange ==
    op = "telnet_login" =>
        /\ sent["password"] <= sent["username"]
        /\ ( /\ Len(fragments) >= 3
             /\ PromptTerminatorFound(fragments[3])
             /\ ~password_change_prompt(fragments[3]) ) =>
              (LoginSucceededInFirstIteration /\ Len(fragments) = 3)

\* C6 witness: a login that returned after exactly three reads
LoginReturnedAfterThreeReads ==
    /\ op = "telnet_login" /\ result = "returned" /\ Len(fragments) = 3
    /\ username_pattern(fragments[1]) /\ pwd_pattern(fragments[2])
    /\ PromptTerminatorFound(fragments[3])
    /\ last_write = "password"

\* C7: HP enable on a session already in privileged mode returns the empty
\* string in its first step, with no write and no read.
EnableIdempotent ==
    [][ (op = "enable" /\ pc = "enable_check" /\ mode = "Privileged") =>
            /\ result' = "returned" /\ retval' = <<>> /\ pc' = "done"
            /\ sent' = sent /\ wfail' = wfail /\ nreads' = nreads ]_vars

\* C7 witness: enable has returned without a write or a read
EnableReturnedAtOnce ==
    /\ op = "enable" /\ result = "returned" /\ retval = <<>>
    /\ TotalSent = 0 /\ nreads = 0 /\ mode = "Privileged"

\* C8: HP enable, once it has answered a username re-prompt with manager,
\* goes on reading: it ends by returning, by the failed-enable error or by a
\* timeout of a read, never by a failure of the read pattern itself.
EnableContinuesAfterUsername ==
    ( /\ op = "enable" /\ pc = "done"
      /\ sent["manager"] = 1 /\ wfail = "none" ) =>
        result \in { "returned", "ValueError", "ReadTimeout" }

\* C9: HP enable returns only in privileged mode; a second check that shows
\* another mode ends the call with the failed-enable error and its guidance.
EnableReturnsOnlyPrivileged ==
    op = "enable" =>
        /\ result = "returned" => mode = "Privileged"
        /\ (result \in { "returned", "ValueError" } /\ mode # "Privileged") =>
              (result = "ValueError" /\ msg = EnableFailedMsg)
        /\ result = "ValueError" => mode # "Privileged"

\* C9 witness: the secret was sent, the device stayed unprivileged, and the
\* call failed
EnableFailedAfterSecret ==
    /\ op = "enable" /\ result = "ValueError" /\ sent["secret"] = 1
    /\ mode = "Unprivileged" /\ msg = EnableFailedMsg

\* C10: Huawei commit, with the outputs of its three steps combined: if the
\* marker is in the combined output the call fails with a message that
\* contains the whole output (so the marker); if not, it returns the output.
CommitScansCombinedOutput ==
    (op = "commit" /\ pc = "done" /\ Len(fragments) = 3) =>
        LET combined == Concatenation(fragments, 3) IN
        IF IsSubstring(error_marker, combined)
        THEN /\ result = "ValueError"
             /\ IsSubstring(combined, msg)
             /\ IsSubstring(error_marker, msg)
        ELSE /\ result = "returned"
             /\ retval = combined

\* C10 witness: the marker straddles the outputs of two steps and the call
\* failed
CommitFailedOnStraddlingMarker ==
    /\ op = "commit" /\ result = "ValueError" /\ Len(fragments) = 3
    /\ \A k \in 1..3 : ~IsSubstring(error_marker, fragments[k])

\* C15 as stated: HP teardown makes at most 10 non-blocking reads.
CleanupAtMostTenReads == op = "cleanup" => nreads <= 10

\* C15 amended: HP teardown makes at most 11 loop iterations (count runs from
\* 0 to 10), so at most 11 non-blocking reads, and it always terminates: the
\* counters are bounded and a call that has not ended can take a step.
CleanupAtMostElevenReads ==
    op = "cleanup" =>
        /\ nreads <= 11
        /\ count <= 11
        /\ nreads \in { count, count + 1 }
        /\ pc # "done" => ENABLED Next

\* C15 witness: a teardown that returned after its eleventh read
CleanupElevenReadsMade ==
    op = "cleanup" /\ nreads = 11 /\ count = 11 /\ result = "returned"

\* write_channel calls made with the logout command (delivered or raised)
LogoutAttempts == sent["logout"] + (IF wfail = "logout" THEN 1 ELSE 0)

\* C19: HP teardown attempts the configuration-mode check and exit first and
\* swallows what they raise: the logout command is not written before that
\* attempt, and after it the logout write is made exactly once, whatever the
\* attempt raised.
CleanupLogoutAfterExitAttempt ==
    op = "cleanup" =>
        /\ pc = "cleanup_exit_config" => (LogoutAttempts = 0 /\ last_write = "none")
        /\ pc = "cleanup_logout" => (LogoutAttempts = 0 /\ result = "running")
        /\ pc \notin { "cleanup_exit_config", "cleanup_logout" } => LogoutAttempts = 1

\* C19 witness: the exit from configuration mode raised and the logout
\* command was delivered afterwards
CleanupLogoutAfterFailedExit ==
    /\ op = "cleanup" /\ caught = "exit_raised" /\ sent["logout"] = 1
    /\ pc = "cleanup_loop"

\* C16: Huawei commit, once the commit command was sent and its read has
\* completed, issues the config-exit command before it returns or fails with
\* the commit failure: until then the call is still running, and a call that
\* returned or failed on the marker has written  return  once and has left
\* configuration mode.
CommitExitsConfigBeforeOutcome ==
    op = "commit" =>
        /\ (pc = "commit_exit" /\ sent["return"] = 0) => result = "running"
        /\ result \in { "returned", "ValueError" } =>
              /\ sent["system-view"] = 1 /\ sent["commit"] = 1
              /\ sent["return"] = 1 /\ last_write = "return"
              /\ mode # "ConfigGlobal"

\* C16 witness: a commit that failed on a marker already present in the
\* output of the commit command, after the exit was written
CommitFailedAfterExit ==
    /\ op = "commit" /\ result = "ValueError" /\ Len(fragments) = 3
    /\ IsSubstring(error_marker, fragments[2])
    /\ sent["return"] = 1 /\ mode = "Privileged"

\* the reply that set_base_prompt read was processed to the end
SetBasePromptRead ==
    op = "set_base_prompt" /\ pc = "done" /\ nreads = 1 /\ result # "socket.error"

\* C11: Huawei set_base_prompt, for a reply whose last line, trimmed, ends in
\* a character outside > # ], fails with the prompt-not-found error and
\* leaves base_prompt as it was.
SetBasePromptRejectsOtherEnding ==
    LET prompt == Strip(LastLine(new_output)) IN
    ( /\ SetBasePromptRead
      /\ prompt # <<>>
      /\ prompt[Len(prompt)] \notin { ">", "#", "]" } ) =>
        /\ result = "ValueError"
        /\ msg = << "Router prompt not found: " >> \o prompt
        /\ base_prompt = OldBasePrompt

\* C11 witness: a reply of several lines whose last line ends in a letter
SetBasePromptRejected ==
    /\ SetBasePromptRead /\ result = "ValueError"
    /\ new_output = << ">", "NL", "<", "h" >>
    /\ base_prompt = OldBasePrompt

\* C12: whenever Huawei set_base_prompt returns, the stored base prompt is
\* not empty.
SetBasePromptNonEmpty ==
    (op = "set_base_prompt" /\ result = "returned") => base_prompt # <<>>

\* a prompt HRP_ + one character + [host] or <host>
IsHAPrompt(text) ==
    /\ Len(text) >= 7
    /\ SubSeq(text, 1, 4) = HRP_
    /\ text[5] # "NL"
    /\ << text[6], text[Len(text)] >> \in { << "[", "]" >>, << "<", ">" >> }

HAPromptHost(text) == SubSeq(text, 7, Len(text) - 1)

\* a host name: one line, no blank at either end
IsHostName(text) ==
    text # <<>> /\ ~Contains(text, "NL") /\ Strip(text) = text

\* C13: Huawei set_base_prompt, for a reply HRP_ + one character + [host] or
\* <host> with host a host name, returns with base_prompt equal to host.
SetBasePromptStripsHAPrefix ==
    ( /\ SetBasePromptRead
      /\ IsHAPrompt(new_output)
      /\ IsHostName(HAPromptHost(new_output)) ) =>
        /\ result = "returned"
        /\ base_prompt = HAPromptHost(new_output)
        /\ retval = base_prompt

\* C13 witness: HRP_h<h> was read and the base prompt is h
SetBasePromptHAPromptRead ==
    /\ SetBasePromptRead /\ result = "returned"
    /\ new_output = HRP_ \o << "h", "<", "h", ">" >>
    /\ base_prompt = << "h" >>

\* C14: stripping what strip_ansi_escape_codes returned changes nothing.
StripIdempotent ==
    (op = "strip_ansi_escape_codes" /\ result = "returned") =>
        strip_ansi_escape_codes(retval) = retval

\* C17: special_login_handler writes N only when the text it read offers a
\* password change; after a read that ends on a prompt terminator with no
\* such offer it has written nothing.
SpecialLoginDeclinesOnlyOffer ==
    ( /\ op = "special_login_handler" /\ pc = "done"
      /\ result \notin { "timeout", "eof" }
      /\ ~PasswordChangeOffered(new_output) ) =>
        /\ last_write = "none"
        /\ TotalSent = 0

Attempts(payload) == sent[payload] + (IF wfail = payload THEN 1 ELSE 0)

\* the HP preparation got as far as the widen-terminal step
HPPrepWidthStepTaken ==
    /\ op = "hp_session_preparation" /\ pc = "done"
    /\ Attempts("terminal width 511") = 1

\* C18: an HP session_preparation that reached the widen-terminal step goes
\* on to the paging command whatever became of that step, and fails only if
\* the paging command fails.
HPPrepWidthFailureNotFatal ==
    HPPrepWidthStepTaken =>
        /\ Attempts("no page") = 1
        /\ sent["no page"] = 1 => result \in { "returned", "timeout" }

\* the base prompt that the preparation derived is in place
BasePromptEstablished ==
    CASE op = "hp_session_preparation" -> base_prompt = << host >>
      [] op = "huawei_session_preparation" ->
            LET prompt == Strip(LastLine(new_output)) IN
            /\ prompt # <<>>
            /\ ValidTerminator(prompt[Len(prompt)])
            /\ base_prompt = DerivedBasePrompt(prompt)
      [] OTHER -> FALSE

PagingCommand ==
    IF op = "hp_session_preparation" THEN "no page"
                                     ELSE "screen-length 0 temporary"

\* the keystrokes that the first read of the HP preparation calls for
KeystrokesDue == IF Contains(output, INTERSTITIAL) THEN 1 ELSE 0

\* C20: in the HP and the Huawei session_preparation the paging command is
\* not written before the base prompt is established; in the HP one the
\* keystroke is written exactly when the first read holds the interstitial,
\* and a further read for a terminator comes before the base prompt is derived.
SessionPreparationOrder ==
    op \in { "hp_session_preparation", "huawei_session_preparation" } =>
        /\ Attempts(PagingCommand) > 0 => BasePromptEstablished
        /\ pc \in { "hp_prep_width", "hp_prep_paging", "huawei_prep_paging" } =>
              BasePromptEstablished
        /\ pc # "done" => Attempts(PagingCommand) = 0
        /\ pc = "hp_prep_reread" =>
              /\ KeystrokesDue = 1
              /\ sent["RETURN"] = 1 /\ nreads = 1
        /\ pc = "hp_prep_base_prompt" =>
              /\ Attempts("RETURN") = KeystrokesDue
              /\ nreads = 1 + KeystrokesDue
              /\ KeystrokesDue = 1 => reread_pattern(new_output)
        /\ pc \in { "hp_prep_width", "hp_prep_paging" } =>
              sent["RETURN"] = 1 + KeystrokesDue

\* C20 witness: an HP preparation that met the interstitial and ran to the end
HPPrepCompletedAfterInterstitial ==
    /\ op = "hp_session_preparation" /\ result = "returned"
    /\ Contains(output, INTERSTITIAL) /\ reread_pattern(new_output)
    /\ sent["RETURN"] = 2 /\ sent["no page"] = 1
    /\ base_prompt = << host >>

=============================================================================
